---- MODULE Spec2Model ----
(***************************************************************************)
(* A model of the CHIP-8 virtual machine of src/main.rs: the ChipContext   *)
(* aggregate, its executor (exec_opcode), its timers and the driving loop  *)
(* of main, which polls input, runs one executor cycle, ticks the timers   *)
(* and redraws when draw_flag is set.                                      *)
(***************************************************************************)
EXTENDS Integers, Sequences, FiniteSets, TLC

(***************************************************************************)
(* Program constants.                                                      *)
(***************************************************************************)
MEMORY_SIZE == 4096
REGISTER_COUNT == 16
STACK_SIZE == 16
KEY_COUNT == 16
SCREEN_WIDTH == 64
SCREEN_HEIGHT == 32
FONT_BASE == 80
PROGRAM_START == 512
SPRITE_BYTES == 5

(***************************************************************************)
(* Bounds of the model.                                                    *)
(***************************************************************************)
\* deepest chain of nested calls among the loaded programs
MaxNest == 17
\* input events the host delivers in one run
MaxEvents == 2
\* timer ticks the tick history counts before it saturates
MaxTicks == 5

Addr == 0 .. (MEMORY_SIZE - 1)
RegIdx == 0 .. (REGISTER_COUNT - 1)

VARIABLES
    \* ChipContext
    memory, registers, stack, I, PC, SP, delay_reg, sound_reg, draw_flag,
    frame_buffer, keyboard_keys,
    \* main: the loop condition, the position in the driving loop, the
    \* fate of the process, what was written to stderr, the canvas as
    \* last presented, and the build profile (overflow checks on or off)
    running, loc, fault, stderr, canvas, overflow_checks,
    \* the bytes of the file that load_program reads
    program,
    \* history: call sites not yet returned to, timer values as last set
    \* and the ticks since, PC advances seen on unrecognized sub-opcodes,
    \* input events delivered
    call_hist, timer_hist, unrec_adv, events

vars == <<memory, registers, stack, I, PC, SP, delay_reg, sound_reg,
          draw_flag, frame_buffer, keyboard_keys, running, loc, fault,
          stderr, canvas, overflow_checks, program, call_hist, timer_hist,
          unrec_adv, events>>

(***************************************************************************)
(* Decoder: the six field extractors.                                      *)
(***************************************************************************)
get_byte_0xF000(opcode) == opcode \div 4096
get_byte_0x0F00(opcode) == (opcode \div 256) % 16
get_byte_0x00F0(opcode) == (opcode \div 16) % 16
get_byte_0x000F(opcode) == opcode % 16
get_bytes_0x0FFF(opcode) == opcode % 4096
get_bytes_0x00FF(opcode) == opcode % 256

\* An instruction word from its four nibbles.
W(f, x, y, n) == f * 4096 + x * 256 + y * 16 + n

(***************************************************************************)
(* The font table.                                                         *)
(***************************************************************************)
SPRITES ==
    << <<\hF0, \h90, \h90, \h90, \hF0>>,
       <<\h20, \h60, \h20, \h20, \h70>>,
       <<\hF0, \h10, \hF0, \h80, \hF0>>,
       <<\hF0, \h10, \hF0, \h10, \hF0>>,
       <<\h90, \h90, \hF0, \h10, \h10>>,
       <<\hF0, \h80, \hF0, \h10, \hF0>>,
       <<\hF0, \h80, \hF0, \h90, \hF0>>,
       <<\hF0, \h10, \h20, \h40, \h40>>,
       <<\hF0, \h90, \hF0, \h90, \hF0>>,
       <<\hF0, \h90, \hF0, \h10, \hF0>>,
       <<\hF0, \h90, \hF0, \h90, \h90>>,
       <<\hE0, \h90, \hE0, \h90, \hE0>>,
       <<\hF0, \h80, \h80, \h80, \hF0>>,
       <<\hE0, \h90, \h90, \h90, \hE0>>,
       <<\hF0, \h80, \hF0, \h80, \hF0>>,
       <<\hF0, \h80, \hF0, \h80, \h80>> >>

(***************************************************************************)
(* The machine as a record, so that the executor is an operator from       *)
(* context to context.  fault is "none" while the call is still running,  *)
(* and otherwise names what ended it.                                      *)
(***************************************************************************)
\* the panic of an index past an array of length len, of an arithmetic
\* overflow under overflow checks, and the loop that never ends
NoFault == [kind |-> "none", len |-> 0, index |-> 0]
OOB(len, index) == [kind |-> "index out of bounds", len |-> len, index |-> index]
OVERFLOW == [kind |-> "arithmetic overflow", len |-> 0, index |-> 0]
BUSY_WAIT == [kind |-> "busy wait", len |-> 0, index |-> 0]

Ctx ==
    [memory |-> memory, registers |-> registers, stack |-> stack, I |-> I,
     PC |-> PC, SP |-> SP, delay_reg |-> delay_reg, sound_reg |-> sound_reg,
     draw_flag |-> draw_flag, frame_buffer |-> frame_buffer,
     keyboard_keys |-> keyboard_keys, stderr |-> stderr, fault |-> NoFault]

Panic(c, why) == [c EXCEPT !.fault = why]

Eprintln(c, msg) == [c EXCEPT !.stderr = @ \cup {msg}]

\* a font loop that starts one byte late
resetMemoryLate ==
    [a \in Addr |->
        IF a \in (FONT_BASE + 1) .. (FONT_BASE + 16 * SPRITE_BYTES)
        THEN SPRITES[((a - FONT_BASE - 1) \div SPRITE_BYTES) + 1]
                    [((a - FONT_BASE - 1) % SPRITE_BYTES) + 1]
        ELSE 0]

\* the loop that copies SPRITES to memory from index 0x050 on
resetMemory ==
    [a \in Addr |->
        IF a \in FONT_BASE .. (FONT_BASE + 16 * SPRITE_BYTES - 1)
        THEN SPRITES[((a - FONT_BASE) \div SPRITE_BYTES) + 1]
                    [((a - FONT_BASE) % SPRITE_BYTES) + 1]
        ELSE 0]

reset ==
    [memory |-> resetMemory,
     registers |-> [r \in RegIdx |-> 0],
     stack |-> [s \in 0 .. (STACK_SIZE - 1) |-> 0],
     I |-> FONT_BASE,
     PC |-> PROGRAM_START,
     SP |-> 0,
     delay_reg |-> 0,
     sound_reg |-> 0,
     draw_flag |-> FALSE,
     frame_buffer |-> [i \in 0 .. (SCREEN_WIDTH - 1) |->
                          [j \in 0 .. (SCREEN_HEIGHT - 1) |-> 0]],
     keyboard_keys |-> [k \in 0 .. (KEY_COUNT - 1) |-> FALSE]]

\* The copy loop of load_program: byte index of the file goes to
\* memory[PC + index]; the first index past the array ends the process,
\* with the bytes before it already written.
load_program(c, file) ==
    LET fits == c.PC + Len(file) <= MEMORY_SIZE
        c1 == [c EXCEPT !.memory =
                  [a \in Addr |->
                      IF a >= c.PC /\ a - c.PC < Len(file)
                      THEN file[a - c.PC + 1] ELSE c.memory[a]]]
    IN  IF fits THEN c1 ELSE Panic(c1, OOB(MEMORY_SIZE, MEMORY_SIZE))

(***************************************************************************)
(* fetch_opcode: the two bytes at PC and PC + 1, big-endian.  Either index  *)
(* past the array ends the process.  The result is the context (faulted    *)
(* or not) and the word.                                                   *)
(***************************************************************************)
\* a fetch that wraps the address into the array instead of failing
fetch_opcode_wrap(c) ==
    [ctx |-> c,
     opcode |-> c.memory[c.PC % MEMORY_SIZE] * 256
                + c.memory[(c.PC + 1) % MEMORY_SIZE]]

fetch_opcode(c) ==
    IF c.PC >= MEMORY_SIZE
    THEN [ctx |-> Panic(c, OOB(MEMORY_SIZE, c.PC)), opcode |-> 0]
    ELSE IF c.PC + 1 >= MEMORY_SIZE
    THEN [ctx |-> Panic(c, OOB(MEMORY_SIZE, c.PC + 1)), opcode |-> 0]
    ELSE [ctx |-> c, opcode |-> c.memory[c.PC] * 256 + c.memory[c.PC + 1]]

(***************************************************************************)
(* Bitwise operations on bytes, bit by bit.                                *)
(***************************************************************************)
Bit(v, b) == (v \div (2 ^ b)) % 2

RECURSIVE BitFold(_, _, _, _)
BitFold(op, a, b, n) ==
    IF n < 0 THEN 0
    ELSE LET x == Bit(a, n)
             y == Bit(b, n)
             r == CASE op = "or" -> IF x + y > 0 THEN 1 ELSE 0
                    [] op = "and" -> x * y
                    [] op = "xor" -> (x + y) % 2
         IN  r * (2 ^ n) + BitFold(op, a, b, n - 1)

BitOr(a, b) == BitFold("or", a, b, 7)
BitAnd(a, b) == BitFold("and", a, b, 7)
BitXor(a, b) == BitFold("xor", a, b, 7)

(***************************************************************************)
(* Family 0: cls, ret, and the fallthrough.                                *)
(***************************************************************************)
Cls(c) ==
    [c EXCEPT !.frame_buffer = [i \in 0 .. (SCREEN_WIDTH - 1) |->
                                   [j \in 0 .. (SCREEN_HEIGHT - 1) |-> 0]],
              !.PC = c.PC + 2]

\* SP -= 1 on a u8: with overflow checks the subtraction from 0 panics,
\* without them SP wraps to 255 and the stack index panics instead.
Ret(c, oc) ==
    IF c.SP = 0 /\ oc THEN Panic(c, OVERFLOW)
    ELSE LET c1 == [c EXCEPT !.SP = (c.SP - 1) % 256]
         IN  IF c1.SP >= STACK_SIZE THEN Panic(c1, OOB(STACK_SIZE, c1.SP))
             ELSE [c1 EXCEPT !.PC = c1.stack[c1.SP] + 2]

\* a fallthrough that steps over the word, as the other families do
Exec0Advance(c, opcode, oc) ==
    CASE get_bytes_0x00FF(opcode) = \hE0 -> Cls(c)
      [] get_bytes_0x00FF(opcode) = \hEE -> Ret(c, oc)
      [] OTHER -> [Eprintln(c, "non existing 0x0xxx opcode")
                      EXCEPT !.PC = c.PC + 2]

Exec0(c, opcode, oc) ==
    CASE get_bytes_0x00FF(opcode) = \hE0 -> Cls(c)
      [] get_bytes_0x00FF(opcode) = \hEE -> Ret(c, oc)
      [] OTHER -> Eprintln(c, "non existing 0x0xxx opcode")

(***************************************************************************)
(* Families 1 and 2: jp, call.                                             *)
(***************************************************************************)
Jp(c, opcode) ==
    [c EXCEPT !.draw_flag = TRUE, !.PC = get_bytes_0x0FFF(opcode)]

\* a call that wraps the stack index instead of failing on it
CallWrap(c, opcode) ==
    LET c1 == [c EXCEPT !.stack[c.SP % STACK_SIZE] = c.PC,
                        !.SP = (c.SP % STACK_SIZE) + 1]
    IN  [c1 EXCEPT !.PC = get_bytes_0x0FFF(opcode)]

\* a call that stores the address after the call site
CallNext(c, opcode) ==
    IF c.SP >= STACK_SIZE THEN Panic(c, OOB(STACK_SIZE, c.SP))
    ELSE [c EXCEPT !.stack[c.SP] = c.PC + 2, !.SP = c.SP + 1,
                   !.PC = get_bytes_0x0FFF(opcode)]

\* stack[SP] = PC fails on SP = 16; SP += 1 cannot overflow after it.
Call(c, opcode) ==
    IF c.SP >= STACK_SIZE THEN Panic(c, OOB(STACK_SIZE, c.SP))
    ELSE LET c1 == [c EXCEPT !.stack[c.SP] = c.PC, !.SP = c.SP + 1]
             c2 == IF c1.SP > 15 THEN Eprintln(c1, "stack overflow") ELSE c1
         IN  [c2 EXCEPT !.PC = get_bytes_0x0FFF(opcode)]

(***************************************************************************)
(* Families 3, 4, 5, 9: the conditional skips.  PC is at most 4094 once    *)
(* the fetch has succeeded, so PC += 4 cannot overflow 16 bits.            *)
(***************************************************************************)
\* a skip that advances by 2 whether or not its condition holds
SkipIfNever(c, cond) == [c EXCEPT !.PC = c.PC + 2]

SkipIf(c, cond) == [c EXCEPT !.PC = IF cond THEN c.PC + 4 ELSE c.PC + 2]

SeImm(c, opcode) ==
    SkipIf(c, get_bytes_0x00FF(opcode) = c.registers[get_byte_0x0F00(opcode)])

SneImm(c, opcode) ==
    SkipIf(c, get_bytes_0x00FF(opcode) # c.registers[get_byte_0x0F00(opcode)])

SeReg(c, opcode) ==
    SkipIf(c, c.registers[get_byte_0x0F00(opcode)]
              = c.registers[get_byte_0x00F0(opcode)])

SneReg(c, opcode) ==
    SkipIf(c, c.registers[get_byte_0x0F00(opcode)]
              # c.registers[get_byte_0x00F0(opcode)])

(***************************************************************************)
(* Families 6, 7: ld Vx, K and add Vx, K (wrapping).                       *)
(***************************************************************************)
LdImm(c, opcode) ==
    [c EXCEPT !.registers[get_byte_0x0F00(opcode)] = get_bytes_0x00FF(opcode),
              !.PC = c.PC + 2]

AddImm(c, opcode) ==
    [c EXCEPT !.registers[get_byte_0x0F00(opcode)] =
                  (@ + get_bytes_0x00FF(opcode)) % 256,
              !.PC = c.PC + 2]

(***************************************************************************)
(* Family 8: register-to-register arithmetic.  The match arm runs first,   *)
(* then PC += 2 for every arm, the fallthrough included.                   *)
(***************************************************************************)
\* 8xy4: the carry is decided first; Vx is written, then VF
AddRegFlagFirst(c, x, y) ==
    LET vx == c.registers[x]
        vy == c.registers[y]
        c1 == [c EXCEPT !.registers[15] = IF vx + vy > 255 THEN 1 ELSE 0]
    IN  [c1 EXCEPT !.registers[x] = (vx + vy) % 256]

AddReg(c, x, y) ==
    LET vx == c.registers[x]
        vy == c.registers[y]
        c1 == [c EXCEPT !.registers[x] = (vx + vy) % 256]
    IN  [c1 EXCEPT !.registers[15] = IF vx + vy > 255 THEN 1 ELSE 0]

\* 8xy5: Vx is written first; the comparison reads old_value and Vy after it
SubRegLateRead(c, x, y) ==
    LET c1 == [c EXCEPT !.registers[x] =
                  (c.registers[x] - c.registers[y]) % 256]
    IN  [c1 EXCEPT !.registers[15] =
            IF c1.registers[x] >= c1.registers[y] THEN 1 ELSE 0]

SubReg(c, x, y) ==
    LET old_value == c.registers[x]
        c1 == [c EXCEPT !.registers[x] = (old_value - c.registers[y]) % 256]
    IN  [c1 EXCEPT !.registers[15] =
            IF old_value >= c1.registers[y] THEN 1 ELSE 0]

\* 8xy7: Vx is written first; the comparison reads both registers after it
SubnRegStrict(c, x, y) ==
    LET c1 == [c EXCEPT !.registers[x] =
                  (c.registers[y] - c.registers[x]) % 256]
    IN  [c1 EXCEPT !.registers[15] =
            IF c1.registers[y] > c1.registers[x] THEN 1 ELSE 0]

SubnReg(c, x, y) ==
    LET c1 == [c EXCEPT !.registers[x] =
                  (c.registers[y] - c.registers[x]) % 256]
    IN  [c1 EXCEPT !.registers[15] =
            IF c1.registers[y] >= c1.registers[x] THEN 1 ELSE 0]

Alu(c, opcode) ==
    LET x == get_byte_0x0F00(opcode)
        y == get_byte_0x00F0(opcode)
        vx == c.registers[x]
        vy == c.registers[y]
        n == get_byte_0x000F(opcode)
    IN  CASE n = 0 -> [c EXCEPT !.registers[x] = vy]
          [] n = 1 -> [c EXCEPT !.registers[x] = BitOr(vx, vy)]
          [] n = 2 -> [c EXCEPT !.registers[x] = BitAnd(vx, vy)]
          [] n = 3 -> [c EXCEPT !.registers[x] = BitXor(vx, vy)]
          [] n = 4 -> AddReg(c, x, y)
          [] n = 5 -> SubReg(c, x, y)
          [] n = 6 ->
               LET c1 == [c EXCEPT !.registers[x] = vx \div 2]
               IN  [c1 EXCEPT !.registers[15] = vx % 2]
          [] n = 7 -> SubnReg(c, x, y)
          [] n = 14 ->
               LET c1 == [c EXCEPT !.registers[x] = (vx * 2) % 256]
               IN  [c1 EXCEPT !.registers[15] = (vx \div 128) % 2]
          [] OTHER -> Eprintln(c, "Non existing 0x8xxx opcode")

Exec8(c, opcode) ==
    LET c1 == Alu(c, opcode) IN [c1 EXCEPT !.PC = c1.PC + 2]

(***************************************************************************)
(* Families A, B, C: ld i, N; jp V0, N; rnd Vx, K.                         *)
(***************************************************************************)
LdI(c, opcode) == [c EXCEPT !.I = get_bytes_0x0FFF(opcode), !.PC = c.PC + 2]

\* nnn + V0 is at most 0xFFF + 0xFF: wrapping_add never wraps here
JpV0(c, opcode) ==
    [c EXCEPT !.PC = (get_bytes_0x0FFF(opcode) + c.registers[0]) % 65536]

Rnd(c, opcode, random_num) ==
    [c EXCEPT !.registers[get_byte_0x0F00(opcode)] =
                  BitAnd(random_num, get_bytes_0x00FF(opcode)),
              !.PC = c.PC + 2]

(***************************************************************************)
(* Family D: drw Vx, Vy, N.  The two loops of the source, row by row and   *)
(* bit by bit, on the context; a sprite byte read past memory ends the    *)
(* process with the rows before it already drawn.                          *)
(***************************************************************************)
\* a blit that tests for the collision after the XOR
RECURSIVE DrwBitsLate(_, _, _, _, _, _)
DrwBitsLate(c, pixel, x, y, yline, xline) ==
    IF xline >= 8 THEN c
    ELSE IF Bit(pixel, 7 - xline) # 0
         THEN LET px == (x + xline) % 64
                  py == (y + yline) % 32
                  c1 == [c EXCEPT !.frame_buffer[px][py] = (@ + 1) % 2]
                  c2 == IF c1.frame_buffer[px][py] = 1
                        THEN [c1 EXCEPT !.registers[15] = 1] ELSE c1
              IN  DrwBitsLate(c2, pixel, x, y, yline, xline + 1)
         ELSE DrwBitsLate(c, pixel, x, y, yline, xline + 1)

RECURSIVE DrwBits(_, _, _, _, _, _)
DrwBits(c, pixel, x, y, yline, xline) ==
    IF xline >= 8 THEN c
    ELSE IF Bit(pixel, 7 - xline) # 0
         THEN LET px == (x + xline) % 64
                  py == (y + yline) % 32
                  c1 == IF c.frame_buffer[px][py] = 1
                        THEN [c EXCEPT !.registers[15] = 1] ELSE c
                  c2 == [c1 EXCEPT !.frame_buffer[px][py] = (@ + 1) % 2]
              IN  DrwBits(c2, pixel, x, y, yline, xline + 1)
         ELSE DrwBits(c, pixel, x, y, yline, xline + 1)

RECURSIVE DrwRows(_, _, _, _, _)
DrwRows(c, x, y, bytes_amount, yline) ==
    IF yline >= bytes_amount THEN c
    ELSE IF c.I + yline >= MEMORY_SIZE
         THEN Panic(c, OOB(MEMORY_SIZE, c.I + yline))
         ELSE DrwRows(DrwBits(c, c.memory[c.I + yline], x, y, yline, 0),
                      x, y, bytes_amount, yline + 1)

Drw(c, opcode) ==
    LET x == c.registers[get_byte_0x0F00(opcode)]
        y == c.registers[get_byte_0x00F0(opcode)]
        bytes_amount == get_byte_0x000F(opcode)
        c1 == [c EXCEPT !.registers[15] = 0]
        c2 == DrwRows(c1, x, y, bytes_amount, 0)
    IN  IF c2.fault # NoFault THEN c2 ELSE [c2 EXCEPT !.PC = c2.PC + 2]

(***************************************************************************)
(* Family E: skp Vx, sknp Vx.  keyboard_keys is indexed by the value of    *)
(* Vx; PC += 2 follows every arm, the fallthrough included.                *)
(***************************************************************************)
\* a skip on a set flag that leaves the flag set
SkpKeep(c, x) ==
    LET k == c.registers[x]
    IN  IF k >= KEY_COUNT THEN Panic(c, OOB(KEY_COUNT, k))
        ELSE IF c.keyboard_keys[k] THEN [c EXCEPT !.PC = c.PC + 2] ELSE c

Skp(c, x) ==
    LET k == c.registers[x]
    IN  IF k >= KEY_COUNT THEN Panic(c, OOB(KEY_COUNT, k))
        ELSE IF c.keyboard_keys[k]
             THEN [c EXCEPT !.PC = c.PC + 2, !.keyboard_keys[k] = FALSE]
             ELSE c

Sknp(c, x) ==
    LET k == c.registers[x]
    IN  IF k >= KEY_COUNT THEN Panic(c, OOB(KEY_COUNT, k))
        ELSE IF ~c.keyboard_keys[k] THEN [c EXCEPT !.PC = c.PC + 2] ELSE c

ExecE(c, opcode) ==
    LET x == get_byte_0x0F00(opcode)
        c1 == CASE get_bytes_0x00FF(opcode) = \h9E -> Skp(c, x)
                [] get_bytes_0x00FF(opcode) = \hA1 -> Sknp(c, x)
                [] OTHER -> Eprintln(c, "non existing 0xExxx opcode")
    IN  IF c1.fault # NoFault THEN c1 ELSE [c1 EXCEPT !.PC = c1.PC + 2]

(***************************************************************************)
(* Family F.                                                               *)
(***************************************************************************)
\* Fx0A: the for loop has no break, so the last set flag wins; with no
\* flag set the while loop never ends.
RECURSIVE LdKeyScan(_, _, _)
LdKeyScan(c, x, i) ==
    IF i >= KEY_COUNT THEN c
    ELSE LdKeyScan(IF c.keyboard_keys[i]
                   THEN [c EXCEPT !.registers[x] = i] ELSE c, x, i + 1)

LdKey(c, x) ==
    IF \E i \in 0 .. (KEY_COUNT - 1) : c.keyboard_keys[i]
    THEN LdKeyScan(c, x, 0)
    ELSE Panic(c, BUSY_WAIT)

\* Fx1E: I += Vx on a u16
AddI(c, x, oc) ==
    IF c.I + c.registers[x] > 65535 /\ oc THEN Panic(c, OVERFLOW)
    ELSE [c EXCEPT !.I = (c.I + c.registers[x]) % 65536]

\* Fx29: the product 5 * Vx is a u8, widened only afterwards
LdF(c, x, oc) ==
    IF 5 * c.registers[x] > 255 /\ oc THEN Panic(c, OVERFLOW)
    ELSE [c EXCEPT !.I = \h050 + ((5 * c.registers[x]) % 256)]

\* a store of the three digits lowest first
LdBLowFirst(c, x) ==
    LET v == c.registers[x] IN
    IF c.I + 2 >= MEMORY_SIZE THEN Panic(c, OOB(MEMORY_SIZE, c.I + 2))
    ELSE [c EXCEPT !.memory[c.I] = v % 10,
                   !.memory[c.I + 1] = (v \div 10) % 10,
                   !.memory[c.I + 2] = v \div 100]

\* Fx33: three stores, each index checked in turn
LdB(c, x) ==
    LET v == c.registers[x] IN
    IF c.I >= MEMORY_SIZE THEN Panic(c, OOB(MEMORY_SIZE, c.I))
    ELSE LET c1 == [c EXCEPT !.memory[c.I] = v \div 100] IN
         IF c.I + 1 >= MEMORY_SIZE THEN Panic(c1, OOB(MEMORY_SIZE, c.I + 1))
         ELSE LET c2 == [c1 EXCEPT !.memory[c.I + 1] = (v \div 10) % 10] IN
              IF c.I + 2 >= MEMORY_SIZE
              THEN Panic(c2, OOB(MEMORY_SIZE, c.I + 2))
              ELSE [c2 EXCEPT !.memory[c.I + 2] = v % 10]

\* a store that leaves I past the last byte written
RECURSIVE StRegsAdvanceI(_, _, _)
StRegsAdvanceI(c, x, i) ==
    IF i > x THEN [c EXCEPT !.I = c.I + x + 1]
    ELSE IF c.I + i >= MEMORY_SIZE THEN Panic(c, OOB(MEMORY_SIZE, c.I + i))
         ELSE StRegsAdvanceI([c EXCEPT !.memory[c.I + i] = c.registers[i]],
                             x, i + 1)

\* Fx55: for i in 0..x+1, memory[I + i] = registers[i]
RECURSIVE StRegs(_, _, _)
StRegs(c, x, i) ==
    IF i > x THEN c
    ELSE IF c.I + i >= MEMORY_SIZE THEN Panic(c, OOB(MEMORY_SIZE, c.I + i))
         ELSE StRegs([c EXCEPT !.memory[c.I + i] = c.registers[i]], x, i + 1)

\* Fx65: for i in 0..x+1, registers[i] = memory[I + i]
RECURSIVE LdRegs(_, _, _)
LdRegs(c, x, i) ==
    IF i > x THEN c
    ELSE IF c.I + i >= MEMORY_SIZE THEN Panic(c, OOB(MEMORY_SIZE, c.I + i))
         ELSE LdRegs([c EXCEPT !.registers[i] = c.memory[c.I + i]], x, i + 1)

ExecF(c, opcode, oc) ==
    LET x == get_byte_0x0F00(opcode)
        kk == get_bytes_0x00FF(opcode)
        c1 == CASE kk = \h07 -> [c EXCEPT !.registers[x] = c.delay_reg]
                [] kk = \h0A -> LdKey(c, x)
                [] kk = \h15 -> [c EXCEPT !.delay_reg = c.registers[x]]
                [] kk = \h18 -> [c EXCEPT !.sound_reg = c.registers[x]]
                [] kk = \h1E -> AddI(c, x, oc)
                [] kk = \h29 -> LdF(c, x, oc)
                [] kk = \h33 -> LdB(c, x)
                [] kk = \h55 -> StRegs(c, x, 0)
                [] kk = \h65 -> LdRegs(c, x, 0)
                [] OTHER -> Eprintln(c, "non existing 0xFxxx opcode")
    IN  IF c1.fault # NoFault THEN c1 ELSE [c1 EXCEPT !.PC = c1.PC + 2]

(***************************************************************************)
(* exec_opcode: fetch, then the match on the top nibble.  random_num is    *)
(* the byte rand::random() returns, read by family C alone.                *)
(***************************************************************************)
Dispatch(c, opcode, oc, random_num) ==
    LET f == get_byte_0xF000(opcode)
    IN  CASE f = 0 -> Exec0(c, opcode, oc)
          [] f = 1 -> Jp(c, opcode)
          [] f = 2 -> Call(c, opcode)
          [] f = 3 -> SeImm(c, opcode)
          [] f = 4 -> SneImm(c, opcode)
          [] f = 5 -> SeReg(c, opcode)
          [] f = 6 -> LdImm(c, opcode)
          [] f = 7 -> AddImm(c, opcode)
          [] f = 8 -> Exec8(c, opcode)
          [] f = 9 -> SneReg(c, opcode)
          [] f = 10 -> LdI(c, opcode)
          [] f = 11 -> JpV0(c, opcode)
          [] f = 12 -> Rnd(c, opcode, random_num)
          [] f = 13 -> Drw(c, opcode)
          [] f = 14 -> ExecE(c, opcode)
          [] f = 15 -> ExecF(c, opcode, oc)

exec_opcode(c, oc, random_num) ==
    LET f == fetch_opcode(c)
    IN  IF f.ctx.fault # NoFault THEN f.ctx
        ELSE Dispatch(c, f.opcode, oc, random_num)

(***************************************************************************)
(* update_timers.                                                          *)
(***************************************************************************)
\* a tick that decrements without the guard, wrapping 0 to 255
TickWrap(t) == (t - 1) % 256

Tick(t) == IF t > 0 THEN t - 1 ELSE t

update_timers(c) ==
    [c EXCEPT !.delay_reg = Tick(c.delay_reg), !.sound_reg = Tick(c.sound_reg)]

(***************************************************************************)
(* draw_graphics: the canvas takes the frame buffer and draw_flag drops.   *)
(***************************************************************************)
\* a render that leaves the flag as it found it
draw_graphics_keep_flag(c) == c

draw_graphics(c) == [c EXCEPT !.draw_flag = FALSE]

(***************************************************************************)
(* read_input: one host event.  The key map is the match of read_input,    *)
(* given here by the CHIP-8 key index each mapped physical key sets.       *)
(***************************************************************************)
EventKeys == {1, 4}

Events ==
    {[type |-> "None", key |-> 0], [type |-> "Quit", key |-> 0]}
    \cup [type : {"KeyDown", "KeyUp"}, key : EventKeys]

read_input(c, ev) ==
    CASE ev.type = "KeyDown" -> [c EXCEPT !.keyboard_keys[ev.key] = TRUE]
      [] ev.type = "KeyUp" -> [c EXCEPT !.keyboard_keys[ev.key] = FALSE]
      [] OTHER -> c

(***************************************************************************)
(* The programs loaded: each a sequence of instruction words, stored as    *)
(* the bytes of the file, high byte first.                                 *)
(***************************************************************************)
Bytes(ws) ==
    [i \in 1 .. (2 * Len(ws)) |->
        IF i % 2 = 1 THEN ws[(i + 1) \div 2] \div 256 ELSE ws[i \div 2] % 256]

\* d nested calls, the k-th at 0x200 + 4k calling the next, each followed
\* by a ret; after the d-th return one more ret runs with SP = 0
Nest(d) ==
    [j \in 1 .. (2 * d + 1) |->
        IF j % 2 = 1 /\ j < 2 * d + 1
        THEN W(2, 0, 0, 0) + PROGRAM_START + 2 * (j + 1)
        ELSE \h00EE]

NestDepths == {1, 2, MaxNest - 1, MaxNest}

\* one of every recognized instruction, skips taken and not taken
Tour ==
    << \h6005, \h610A, \h3005, \h00E0, \h3006, \h4005, \h4006, \h00E0,
       \h5010, \h5000, \h00E0, \h9010, \h00E0, \h9000, \h70FD, \h8010,
       \h8101, \h8012, \h8103, \h8014, \h8015, \h8106, \h8017, \h810E,
       \hA123, \hD011, \h00E0, \h6204, \hE29E, \hE2A1, \hF307, \hF10A,
       \hF115, \hF118, \hF11E, \hF129, \hF033, \hF255, \hF265, \hC1A5 >>

\* out-of-range accesses: fetch, draw, store-bcd, store-regs, load-regs
Faulting ==
    { << \h1FFF >>, << \h60FF, \hBFFF >>, << \h1FFE, \h0000 >>,
      << \hAFFF, \h6005, \hF01E, \hD001 >>, << \hAFFF, \hD002 >>,
      << \hAFFE, \hF033 >>, << \hAFFD, \hF033 >>, << \hAFFF, \hF155 >>,
      << \hAFFF, \hF165 >>, << \hAFFE, \hF155 >>, << \h6010, \hE09E >>,
      << \h6010, \hE0A1 >> }

\* unrecognized sub-opcodes of families 8, E, F and 0
Unknowns == { << \h8008, \hE000, \hF000, \h0000 >> }

\* set both timers, let them run, set them again, then spin on a jump
\* to itself
TimerValues == {0, 1, 2, 255}

Timers ==
    { << \h6000 + v, \hF015, \hF018, \hF107, \h6003, \hF015, \hF018, \h120E >> :
      v \in TimerValues }

\* two sprites drawn over each other, from origins that wrap
DrawXs == {0, 60, 63}

DrawYs == {0, 30}

DrawNs == {0, 1, 5, 15}

Draws ==
    { << \h6000 + x, \h6100 + y, \hD010 + n, \h7002, \hA055, \hD010 + n,
         \h6F05, \hDFF2, \hD010 + n >> :
      x \in DrawXs, y \in DrawYs, n \in DrawNs }
    \cup { << \h603F, \h611F, \hD015, \hD015, \h00E0 >> }

\* wait for a key, then loop
Keys == { << \hF00A, \h1200 >>, << \h6004, \hE09E, \h1202, \hE09E, \h1202 >> }

\* files that fill memory from 0x200 to its end exactly, and one word more:
\* a jump to itself, then filler
Capacity == (MEMORY_SIZE - PROGRAM_START) \div 2
Filled(n) == [i \in 1 .. n |-> IF i = 1 THEN \h1200 ELSE \hFFFF]
Large == { Filled(Capacity), Filled(Capacity + 1) }

\* draw the glyph of 0 at (0, 0), then spin on a jump to itself
Frames == { << \hA050, \hD015, \h1204 >> }

ROMS ==
    { Nest(d) : d \in NestDepths } \cup {Tour} \cup Faulting \cup Unknowns
    \cup Timers \cup Draws \cup Keys \cup Large \cup Frames

RandomBytes == {\h00, \hA5, \hFF}

(***************************************************************************)
(* Which words the executor recognizes, and what they are.                 *)
(***************************************************************************)
Family(opcode) == get_byte_0xF000(opcode)

IsCls(opcode) == Family(opcode) = 0 /\ get_bytes_0x00FF(opcode) = \hE0
IsRet(opcode) == Family(opcode) = 0 /\ get_bytes_0x00FF(opcode) = \hEE
IsJp(opcode) == Family(opcode) = 1
IsCall(opcode) == Family(opcode) = 2
IsJpV0(opcode) == Family(opcode) = 11
IsDrw(opcode) == Family(opcode) = 13
IsSkp(opcode) == Family(opcode) = 14 /\ get_bytes_0x00FF(opcode) = \h9E
IsSknp(opcode) == Family(opcode) = 14 /\ get_bytes_0x00FF(opcode) = \hA1
IsAlu(opcode, n) == Family(opcode) = 8 /\ get_byte_0x000F(opcode) = n
IsF(opcode, kk) == Family(opcode) = 15 /\ get_bytes_0x00FF(opcode) = kk

Unrecognized(opcode) ==
    \/ Family(opcode) = 0 /\ get_bytes_0x00FF(opcode) \notin {\hE0, \hEE}
    \/ Family(opcode) = 8 /\ get_byte_0x000F(opcode) \notin (0 .. 7) \cup {14}
    \/ Family(opcode) = 14 /\ get_bytes_0x00FF(opcode) \notin {\h9E, \hA1}
    \/ Family(opcode) = 15 /\ get_bytes_0x00FF(opcode) \notin
           {\h07, \h0A, \h15, \h18, \h1E, \h29, \h33, \h55, \h65}

\* the word at PC, where the fetch succeeds
Fetchable == PC + 1 < MEMORY_SIZE
Opcode == memory[PC] * 256 + memory[PC + 1]

(***************************************************************************)
(* The state after ChipContext::reset(), before load_program.              *)
(***************************************************************************)
Init ==
    /\ memory = reset.memory
    /\ registers = reset.registers
    /\ stack = reset.stack
    /\ I = reset.I
    /\ PC = reset.PC
    /\ SP = reset.SP
    /\ delay_reg = reset.delay_reg
    /\ sound_reg = reset.sound_reg
    /\ draw_flag = reset.draw_flag
    /\ frame_buffer = reset.frame_buffer
    /\ keyboard_keys = reset.keyboard_keys
    /\ running = TRUE
    /\ loc = "load_program"
    /\ fault = NoFault
    /\ stderr = {}
    /\ canvas = [i \in 0 .. (SCREEN_WIDTH - 1) |->
                    [j \in 0 .. (SCREEN_HEIGHT - 1) |-> 0]]
    /\ overflow_checks \in BOOLEAN
    /\ program \in {Bytes(rom) : rom \in ROMS}
    /\ call_hist = << >>
    /\ timer_hist = [delay |-> [v |-> 0, since |-> 0],
                     sound |-> [v |-> 0, since |-> 0]]
    /\ unrec_adv = {}
    /\ events = 0

\* the context variables take the fields of c
Becomes(c) ==
    /\ memory' = c.memory
    /\ registers' = c.registers
    /\ stack' = c.stack
    /\ I' = c.I
    /\ PC' = c.PC
    /\ SP' = c.SP
    /\ delay_reg' = c.delay_reg
    /\ sound_reg' = c.sound_reg
    /\ draw_flag' = c.draw_flag
    /\ frame_buffer' = c.frame_buffer
    /\ keyboard_keys' = c.keyboard_keys
    /\ stderr' = c.stderr
    /\ fault' = c.fault

AfterFault(f, next) ==
    IF f = NoFault THEN next
    ELSE IF f = BUSY_WAIT THEN "hung" ELSE "panicked"

(***************************************************************************)
(* main: load the program, then the driving loop.                          *)
(***************************************************************************)
LoadProgram ==
    /\ loc = "load_program"
    /\ LET c == load_program(Ctx, program)
       IN  /\ Becomes(c)
           /\ loc' = AfterFault(c.fault, "read_input")
    /\ UNCHANGED <<running, canvas, overflow_checks, program, call_hist,
                   timer_hist, unrec_adv, events>>

\* read_input, then the test of the instruction clock
ReadInput ==
    /\ loc = "read_input"
    /\ \E ev \in Events, elapsed \in BOOLEAN :
          /\ ev.type # "None" => events < MaxEvents
          /\ events' = IF ev.type # "None" THEN events + 1 ELSE events
          /\ Becomes(read_input(Ctx, ev))
          /\ running' = IF ev.type = "Quit" THEN FALSE ELSE running
          /\ loc' = IF elapsed THEN "exec_opcode"
                    ELSE IF running' THEN "read_input" ELSE "exit"
    /\ UNCHANGED <<canvas, overflow_checks, program, call_hist, timer_hist,
                   unrec_adv>>

SetTimerHist(h, c) ==
    IF ~Fetchable \/ c.fault # NoFault THEN h
    ELSE IF IsF(Opcode, \h15)
         THEN [h EXCEPT !.delay = [v |-> c.delay_reg, since |-> 0]]
    ELSE IF IsF(Opcode, \h18)
         THEN [h EXCEPT !.sound = [v |-> c.sound_reg, since |-> 0]]
    ELSE h

ExecOpcode ==
    /\ loc = "exec_opcode"
    /\ \E random_num \in RandomBytes :
          LET c == exec_opcode(Ctx, overflow_checks, random_num)
              done == Fetchable /\ c.fault = NoFault
          IN  /\ Becomes(c)
              /\ loc' = AfterFault(c.fault, "update_timers")
              /\ call_hist' =
                    IF done /\ IsCall(Opcode)
                    THEN Append(call_hist, [site |-> PC, sp |-> SP])
                    ELSE IF done /\ IsRet(Opcode) /\ Len(call_hist) > 0
                    THEN SubSeq(call_hist, 1, Len(call_hist) - 1)
                    ELSE call_hist
              /\ timer_hist' = SetTimerHist(timer_hist, c)
              /\ unrec_adv' =
                    IF done /\ Unrecognized(Opcode)
                    THEN unrec_adv \cup {c.PC - PC} ELSE unrec_adv
    /\ UNCHANGED <<running, canvas, overflow_checks, program, events>>

Since(n) == IF n < MaxTicks THEN n + 1 ELSE n

UpdateTimers ==
    /\ loc = "update_timers"
    /\ Becomes(update_timers(Ctx))
    /\ timer_hist' = [delay |-> [timer_hist.delay EXCEPT !.since = Since(@)],
                      sound |-> [timer_hist.sound EXCEPT !.since = Since(@)]]
    /\ loc' = "draw_graphics"
    /\ UNCHANGED <<running, canvas, overflow_checks, program, call_hist,
                   unrec_adv, events>>

\* if chip8.draw_flag { draw_graphics }, then the loop condition
Redraw ==
    /\ loc = "draw_graphics"
    /\ Becomes(IF draw_flag THEN draw_graphics(Ctx) ELSE Ctx)
    /\ canvas' = IF draw_flag THEN frame_buffer ELSE canvas
    /\ loc' = IF running THEN "read_input" ELSE "exit"
    /\ UNCHANGED <<running, overflow_checks, program, call_hist, timer_hist,
                   unrec_adv, events>>

Next == LoadProgram \/ ReadInput \/ ExecOpcode \/ UpdateTimers \/ Redraw

Spec == Init /\ [][Next]_vars

(***************************************************************************)
(* Runs on programs of a few instructions each, in a window that receives  *)
(* no event: the same driving loop, started on another set of files.       *)
(***************************************************************************)
AluRegs == {0, 1, 15}
AluValues == {\h00, \h01, \h7F, \h80, \hFF}
AluOps == {4, 5, 7}

\* ld Vx, a; ld Vy, b; then add, sub or subn Vx, Vy
Arith ==
    { << W(6, x, 0, 0) + a, W(6, y, 0, 0) + b, W(8, x, y, n) >> :
        x \in AluRegs, y \in AluRegs, a \in AluValues, b \in AluValues,
        n \in AluOps }

\* ld V0, v; ld f, V0
FontValues == {0, 9, 15, 51, 52, 255}
Fonts == { << W(6, 0, 0, 0) + v, \hF029 >> : v \in FontValues }

\* V0..VF loaded with sixteen distinct values; ld i, a; ld [i], Vx; all
\* registers overwritten; ld Vx, [i]
StoreXs == {0, 1, 7, 15}
StoreAddrs == {\h300, \hFF0}
StoredValue(k) == 16 * k + 1
AlteredValue == \hAA
RoundTrip(x, a) ==
    [k \in 1 .. REGISTER_COUNT |-> W(6, k - 1, 0, 0) + StoredValue(k - 1)]
    \o << W(10, 0, 0, 0) + a, W(15, x, 5, 5) >>
    \o [k \in 1 .. REGISTER_COUNT |-> W(6, k - 1, 0, 0) + AlteredValue]
    \o << W(15, x, 6, 5) >>
RoundTrips == { RoundTrip(x, a) : x \in StoreXs, a \in StoreAddrs }

\* ld V0, 5; ld V1, 10; add V0, V1; ld b, V0
Scenario == << \h6005, \h610A, \h8014, \hF033 >>

InstrROMS == Arith \cup Fonts \cup RoundTrips \cup {Scenario}

InitInstr ==
    /\ memory = reset.memory
    /\ registers = reset.registers
    /\ stack = reset.stack
    /\ I = reset.I
    /\ PC = reset.PC
    /\ SP = reset.SP
    /\ delay_reg = reset.delay_reg
    /\ sound_reg = reset.sound_reg
    /\ draw_flag = reset.draw_flag
    /\ frame_buffer = reset.frame_buffer
    /\ keyboard_keys = reset.keyboard_keys
    /\ running = TRUE
    /\ loc = "load_program"
    /\ fault = NoFault
    /\ stderr = {}
    /\ canvas = [i \in 0 .. (SCREEN_WIDTH - 1) |->
                    [j \in 0 .. (SCREEN_HEIGHT - 1) |-> 0]]
    /\ overflow_checks \in BOOLEAN
    /\ program \in {Bytes(rom) : rom \in InstrROMS}
    /\ call_hist = << >>
    /\ timer_hist = [delay |-> [v |-> 0, since |-> 0],
                     sound |-> [v |-> 0, since |-> 0]]
    /\ unrec_adv = {}
    /\ events = MaxEvents

SpecInstr == InitInstr /\ [][Next]_vars

(***************************************************************************)
(* Properties.                                                             *)
(***************************************************************************)
\* the step about to be taken is an executor cycle whose fetch succeeds
ExecStep == loc = "exec_opcode" /\ Fetchable

Max0(n) == IF n > 0 THEN n ELSE 0

\* C1: immediately after reset the font table lies at 0x050..0x09F, glyph d
\* at 0x050 + 5d, every other byte of memory is 0, PC = 0x200, I = 0x050,
\* SP = 0, and the registers, the timers, the display, the stack, the input
\* flags and the redraw signal are all zero or false.
C1_ResetState ==
    loc = "load_program" =>
        /\ \A d \in 0 .. 15 : \A k \in 0 .. 4 :
              memory[\h050 + 5 * d + k] = SPRITES[d + 1][k + 1]
        /\ \A a \in Addr : (a < \h050 \/ a >= \h0A0) => memory[a] = 0
        /\ PC = \h200 /\ I = \h050 /\ SP = 0
        /\ \A r \in 0 .. 15 : registers[r] = 0
        /\ delay_reg = 0 /\ sound_reg = 0
        /\ \A i \in 0 .. 63 : \A j \in 0 .. 31 : frame_buffer[i][j] = 0
        /\ \A k \in 0 .. 15 : stack[k] = 0
        /\ \A k \in 0 .. 15 : keyboard_keys[k] = FALSE
        /\ draw_flag = FALSE

C1_Witness ==
    /\ loc = "load_program"
    /\ memory[\h050] = \hF0 /\ memory[\h09F] = \h80 /\ memory[\h200] = 0

\* C2: a return with calls pending sets PC to the site of the latest call
\* not yet returned to, plus 2, and SP to its value before that call: d
\* calls then d returns unwind in LIFO order and restore SP.
C2_CallReturnRoundTrip ==
    [][(ExecStep /\ IsRet(Opcode) /\ Len(call_hist) > 0) =>
          /\ fault' = NoFault
          /\ PC' = call_hist[Len(call_hist)].site + 2
          /\ SP' = call_hist[Len(call_hist)].sp
          /\ Len(call_hist') = Len(call_hist) - 1]_vars

\* sixteen nested calls made and all sixteen returned from
C2_Witness ==
    /\ fault = NoFault /\ loc = "update_timers"
    /\ call_hist = << >> /\ SP = 0 /\ PC = PROGRAM_START + 2
    /\ stack[STACK_SIZE - 1] = PROGRAM_START + 4 * (STACK_SIZE - 1)

\* C3: a call with 16 calls pending (the 17th from SP = 0) ends the run in a
\* failure with SP still 16 and the stack as the 16 calls left it; every
\* earlier call raises SP by 1, to at most 16, and writes stack[SP] alone.
C3_SeventeenthCallFails ==
    [][(ExecStep /\ IsCall(Opcode)) =>
          IF SP = STACK_SIZE
          THEN /\ fault' = OOB(STACK_SIZE, STACK_SIZE)
               /\ loc' = "panicked"
               /\ SP' = STACK_SIZE
               /\ stack' = stack
          ELSE /\ fault' = NoFault
               /\ SP' = SP + 1 /\ SP' <= STACK_SIZE
               /\ \A k \in 0 .. (STACK_SIZE - 1) :
                     k # SP => stack'[k] = stack[k]]_vars

C3_Witness ==
    /\ loc = "panicked" /\ fault = OOB(STACK_SIZE, STACK_SIZE)
    /\ SP = STACK_SIZE /\ Len(call_hist) = STACK_SIZE
    /\ \A k \in 0 .. (STACK_SIZE - 1) : stack[k] = call_hist[k + 1].site

\* C4: a return executed with SP = 0 ends the run in a failure with SP
\* still 0 (neither negative nor wrapped to 255) and PC untouched.
C4_ReturnUnderflowDetected ==
    [][(ExecStep /\ IsRet(Opcode) /\ SP = 0) =>
          /\ loc' = "panicked"
          /\ SP' = 0
          /\ PC' = PC]_vars

\* the addresses the cycle about to run must access: the two bytes of the
\* instruction, then the bytes the instruction names through I
InstrNeeds ==
    IF ~Fetchable THEN {}
    ELSE IF IsDrw(Opcode)
         THEN {I + r : r \in 0 .. (get_byte_0x000F(Opcode) - 1)}
    ELSE IF IsF(Opcode, \h33) THEN {I, I + 1, I + 2}
    ELSE IF IsF(Opcode, \h55) \/ IsF(Opcode, \h65)
         THEN {I + k : k \in 0 .. get_byte_0x0F00(Opcode)}
    ELSE {}

MemNeeds == {PC, PC + 1} \cup InstrNeeds

MinOf(S) == CHOOSE m \in S : \A n \in S : m <= n

IsMemFault(f) == f.kind = "index out of bounds" /\ f.len = MEMORY_SIZE

\* C5: an executor cycle touches memory only at the addresses of its fetch
\* (PC, PC + 1) and of its instruction (draw I..I+N-1, store-bcd I..I+2,
\* store-regs and load-regs I..I+X); when all of them lie in 0..4095 no
\* memory fault occurs, and when one does not the run ends in a failure
\* naming the first address past the array, with no byte written anywhere
\* else (no wrapped or truncated access).
C5_AddressesInRange ==
    [][loc = "exec_opcode" =>
          /\ \/ memory' = memory
             \/ \A a \in Addr \ MemNeeds : memory'[a] = memory[a]
          /\ IF MemNeeds \subseteq Addr
             THEN ~IsMemFault(fault')
             ELSE /\ fault' = OOB(MEMORY_SIZE, MinOf(MemNeeds \ Addr))
                  /\ loc' = "panicked"]_vars

\* jump-offset 0xFFF with V0 = 0xFF has left PC = 0x10FE, and the fetch failed
C5_Witness ==
    /\ loc = "panicked" /\ PC = \hFFF + \hFF
    /\ fault = OOB(MEMORY_SIZE, \hFFF + \hFF)

\* the condition of the skip the word encodes, FALSE for any other word
SkipCond(op) ==
    LET vx == registers[get_byte_0x0F00(op)]
        vy == registers[get_byte_0x00F0(op)]
        kk == get_bytes_0x00FF(op)
    IN  \/ Family(op) = 3 /\ vx = kk
        \/ Family(op) = 4 /\ vx # kk
        \/ Family(op) = 5 /\ vx = vy
        \/ Family(op) = 9 /\ vx # vy
        \/ IsSkp(op) /\ vx < KEY_COUNT /\ keyboard_keys[vx]
        \/ IsSknp(op) /\ vx < KEY_COUNT /\ ~keyboard_keys[vx]

Straight(op) ==
    ~Unrecognized(op) /\ ~IsJp(op) /\ ~IsCall(op) /\ ~IsRet(op) /\ ~IsJpV0(op)

\* C6: an executor cycle that completes a recognized instruction other than
\* jump, call, return and jump-offset moves PC by +4 when the instruction
\* is a conditional skip whose condition holds, and by +2 otherwise.
C6_PcAdvance ==
    [][(ExecStep /\ Straight(Opcode) /\ fault' = NoFault) =>
          PC' = PC + (IF SkipCond(Opcode) THEN 4 ELSE 2)]_vars

\* skip-eq-imm V0, 5 at 0x204 was taken with V0 = 5
C6_Witness ==
    /\ loc = "update_timers" /\ PC = \h208 /\ registers[0] = 5
    /\ memory[\h204] = \h30 /\ memory[\h205] = \h05

\* C7: every unrecognized sub-opcode, in families 0, 8, E and F alike,
\* moves PC by the same amount.
C7_UniformUnrecognizedAdvance == Cardinality(unrec_adv) <= 1

\* the pixels the draw about to run flips: for row r and column c of the
\* sprite at I, the pixel at ((Vx + c) mod 64, (Vy + r) mod 32) when bit
\* 7 - c of memory[I + r] is set
Flipped ==
    LET vx == registers[get_byte_0x0F00(Opcode)]
        vy == registers[get_byte_0x00F0(Opcode)]
    IN  { <<(vx + c) % 64, (vy + r) % 32>> :
            <<r, c>> \in { rc \in (0 .. (get_byte_0x000F(Opcode) - 1)) \X (0 .. 7) :
                             (memory[I + rc[1]] \div (2 ^ (7 - rc[2]))) % 2 = 1 } }

\* C8: a completed draw X,Y,N flips exactly the pixels of the reference
\* XOR-blit, with the origin (Vx, Vy) as it was before the instruction,
\* leaves VF = 1 iff one of the flipped pixels was 1 before, whatever VF
\* was, changes no other register, and advances PC by 2.
C8_DrawIsXorBlit ==
    [][(ExecStep /\ IsDrw(Opcode) /\ fault' = NoFault) =>
          \A flip \in {Flipped} :
             /\ \A i \in 0 .. 63 : \A j \in 0 .. 31 :
                   frame_buffer'[i][j] =
                       IF <<i, j>> \in flip
                       THEN 1 - frame_buffer[i][j] ELSE frame_buffer[i][j]
             /\ registers'[15] =
                   IF \E p \in flip : frame_buffer[p[1]][p[2]] = 1
                   THEN 1 ELSE 0
             /\ \A r \in 0 .. 14 : registers'[r] = registers[r]
             /\ PC' = PC + 2]_vars

\* glyph 0 drawn at (63, 30) wrapped onto columns 0..2 and row 0, then
\* glyph 1 drawn at (65, 30) collided with it at (2, 31)
C8_Witness ==
    /\ loc = "update_timers" /\ registers[15] = 1 /\ registers[0] = 65
    /\ registers[1] = 30 /\ I = \h055
    /\ frame_buffer[63][30] = 1 /\ frame_buffer[0][30] = 1
    /\ frame_buffer[63][0] = 1
    /\ frame_buffer[2][31] = 0 /\ frame_buffer[3][31] = 1

\* C9: after an executor cycle that completes clear-display or draw the
\* redraw signal is set.
C9_RedrawAfterClearAndDraw ==
    [][(ExecStep /\ (IsCls(Opcode) \/ IsDrw(Opcode)) /\ fault' = NoFault) =>
          draw_flag']_vars

\* C10: both timers stay within 0..255, and a timer set to v holds
\* max(0, v - N) after N ticks with no set in between.
C10_TimerDecay ==
    /\ delay_reg \in 0 .. 255
    /\ sound_reg \in 0 .. 255
    /\ timer_hist.delay.since < MaxTicks =>
          delay_reg = Max0(timer_hist.delay.v - timer_hist.delay.since)
    /\ timer_hist.sound.since < MaxTicks =>
          sound_reg = Max0(timer_hist.sound.v - timer_hist.sound.since)

\* the delay timer, set to 2, has been ticked 4 times and rests at 0, while
\* the sound timer set to 2 a cycle later has been ticked 3 times
C10_Witness ==
    /\ timer_hist.delay.v = 2 /\ timer_hist.delay.since = 4 /\ delay_reg = 0
    /\ timer_hist.sound.v = 2 /\ timer_hist.sound.since = 3 /\ sound_reg = 0

\* C11: the timer tick is gated by its own clock: an iteration that ran an
\* executor cycle can end without a timer tick, and from the head of the
\* loop a timer tick can be reached without an executor cycle.
C11_TimerTickOwnClock ==
    /\ loc = "update_timers" => ENABLED (Next /\ ~UpdateTimers)
    /\ (loc = "read_input" /\ running) =>
          ENABLED (Next /\ loc' = "update_timers")

\* the input flags that are set
KeysDown == {k \in 0 .. (KEY_COUNT - 1) : keyboard_keys[k]}

\* C12: wait-key executed with no input flag set returns from the executor
\* cycle with the instruction not completed (PC and registers as before),
\* and the driving loop goes on; with a flag set it completes, assigning Vx
\* and advancing PC by 2.
C12_WaitKeyNeverBlocks ==
    [][(ExecStep /\ IsF(Opcode, \h0A)) =>
          IF KeysDown = {}
          THEN /\ loc' = "update_timers"
               /\ fault' = NoFault
               /\ PC' = PC
               /\ registers' = registers
          ELSE /\ loc' = "update_timers"
               /\ registers'[get_byte_0x0F00(Opcode)] \in KeysDown
               /\ PC' = PC + 2]_vars

\* C13: wait-key X completing with the set S of input flags set leaves
\* Vx = min(S).
C13_WaitKeyFirstIndex ==
    [][(ExecStep /\ IsF(Opcode, \h0A) /\ KeysDown # {}) =>
          registers'[get_byte_0x0F00(Opcode)] = MinOf(KeysDown)]_vars

\* the word before PC: the instruction just executed, in straight-line code
Prev == memory[PC - 2] * 256 + memory[PC - 1]

\* an executor cycle of the program's third instruction has just ended
AfterThird == loc = "update_timers" /\ PC = PROGRAM_START + 6

\* C14: add-reg X,Y with a = Vx and b = Vy before: afterwards VF = 1 if
\* a + b > 255 else 0, for X # 0xF Vx = (a + b) mod 256, no register other
\* than Vx and VF changes, and PC advances by 2.
C14_AddReg ==
    [][(ExecStep /\ IsAlu(Opcode, 4)) =>
          LET x == get_byte_0x0F00(Opcode)
              y == get_byte_0x00F0(Opcode)
              a == registers[x]
              b == registers[y]
          IN  /\ fault' = NoFault
              /\ registers'[15] = (IF a + b > 255 THEN 1 ELSE 0)
              /\ x # 15 => registers'[x] = (a + b) % 256
              /\ \A r \in RegIdx \ {x, 15} : registers'[r] = registers[r]
              /\ PC' = PC + 2]_vars

\* add VF, V1 with a carry has run: VF holds the flag
C14_Witness ==
    /\ AfterThird
    /\ IsAlu(Prev, 4)
    /\ get_byte_0x0F00(Prev) = 15
    /\ get_byte_0x00F0(Prev) = 1
    /\ registers[1] = \h80
    /\ registers[15] = 1

\* C15: sub-reg X,Y, X = Y included: afterwards VF = 1 iff Vx(before) >=
\* Vy(before), and for X # 0xF Vx = (Vx(before) - Vy(before)) mod 256.
C15_SubReg ==
    [][(ExecStep /\ IsAlu(Opcode, 5)) =>
          LET x == get_byte_0x0F00(Opcode)
              y == get_byte_0x00F0(Opcode)
              a == registers[x]
              b == registers[y]
          IN  /\ fault' = NoFault
              /\ registers'[15] = (IF a >= b THEN 1 ELSE 0)
              /\ x # 15 => registers'[x] = (a - b) % 256]_vars

\* sub V0, V1 with V0 = 0x7F < V1 = 0x80 has run: a borrow, Vx wrapped
C15_Witness ==
    /\ AfterThird
    /\ IsAlu(Prev, 5)
    /\ get_byte_0x0F00(Prev) = 0
    /\ get_byte_0x00F0(Prev) = 1
    /\ registers[1] = \h80
    /\ registers[0] = \hFF
    /\ registers[15] = 0

\* C16: subn X,Y, X = Y included: afterwards VF = 1 iff Vy(before) >=
\* Vx(before), and for X # 0xF Vx = (Vy(before) - Vx(before)) mod 256.
C16_SubnReg ==
    [][(ExecStep /\ IsAlu(Opcode, 7)) =>
          LET x == get_byte_0x0F00(Opcode)
              y == get_byte_0x00F0(Opcode)
              a == registers[x]
              b == registers[y]
          IN  /\ fault' = NoFault
              /\ registers'[15] = (IF b >= a THEN 1 ELSE 0)
              /\ x # 15 => registers'[x] = (b - a) % 256]_vars

\* subn V0, V1 with V1 = 0x80 < V0 = 0xFF has run: a borrow, Vx wrapped
C16_Witness ==
    /\ AfterThird
    /\ IsAlu(Prev, 7)
    /\ get_byte_0x0F00(Prev) = 0
    /\ get_byte_0x00F0(Prev) = 1
    /\ registers[1] = \h80
    /\ registers[0] = \h81
    /\ registers[15] = 0

\* C17: font-addr X sets I = 0x050 + 5 * Vx for every value of Vx in
\* 0..255, with no overflow, wraparound or failure of the product; for Vx
\* in 0..15 the five bytes at I are then the glyph of digit Vx.
C17_FontAddr ==
    [][(ExecStep /\ IsF(Opcode, \h29)) =>
          LET v == registers[get_byte_0x0F00(Opcode)]
          IN  /\ fault' = NoFault
              /\ I' = \h050 + 5 * v
              /\ PC' = PC + 2
              /\ v <= 15 =>
                    \A k \in 0 .. (SPRITE_BYTES - 1) :
                        memory'[I' + k] = SPRITES[v + 1][k + 1]]_vars

\* the address of the last instruction of a RoundTrip program
RoundTripLoad == PROGRAM_START + 2 * (2 * REGISTER_COUNT + 2)

\* C18: for I + X <= 4095, store-regs X writes memory[I + k] = Vk for k in
\* 0..X and changes no other byte of memory, no register and not I; a
\* following load-regs X, after the registers were altered, restores
\* V0..Vx to the stored values and leaves V(X+1)..VF and I unchanged; each
\* of the two instructions advances PC by 2.
C18_StoreLoadRoundTrip ==
    [][/\ (ExecStep /\ IsF(Opcode, \h55)
              /\ I + get_byte_0x0F00(Opcode) <= MEMORY_SIZE - 1) =>
            LET x == get_byte_0x0F00(Opcode)
            IN  /\ fault' = NoFault
                /\ \A k \in 0 .. x : memory'[I + k] = registers[k]
                /\ \A a \in Addr \ (I .. (I + x)) : memory'[a] = memory[a]
                /\ registers' = registers
                /\ I' = I
                /\ PC' = PC + 2
       /\ (ExecStep /\ IsF(Opcode, \h65)
              /\ I + get_byte_0x0F00(Opcode) <= MEMORY_SIZE - 1) =>
            LET x == get_byte_0x0F00(Opcode)
            IN  /\ fault' = NoFault
                /\ \A k \in 0 .. x : registers'[k] = memory[I + k]
                /\ \A k \in RegIdx \ (0 .. x) : registers'[k] = registers[k]
                /\ memory' = memory
                /\ I' = I
                /\ PC' = PC + 2
                /\ PC = RoundTripLoad =>
                      \A k \in 0 .. x :
                          /\ registers[k] = AlteredValue
                          /\ registers'[k] = StoredValue(k)]_vars

\* ld [i], V7 at I = 0xFF0 and, after every register was overwritten,
\* ld V7, [i] have run
C18_Witness ==
    /\ loc = "update_timers"
    /\ PC = RoundTripLoad + 2
    /\ IsF(Prev, \h65)
    /\ get_byte_0x0F00(Prev) = 7
    /\ I = \hFF0
    /\ memory[\hFF7] = StoredValue(7)
    /\ registers[7] = StoredValue(7)
    /\ registers[8] = AlteredValue

\* the n-th executor cycle of the Scenario program is about to run
Cycle(n) ==
    /\ ExecStep
    /\ program = Bytes(Scenario)
    /\ PC = PROGRAM_START + 2 * (n - 1)

\* V0 = 15 and the three bytes at I are 0, 1, 5, after the step
SumStoredAsBcd ==
    /\ registers'[0] = 15
    /\ memory'[I'] = 0 /\ memory'[I' + 1] = 1 /\ memory'[I' + 2] = 5

\* C19, as stated: from reset, with the program ld V0, 5; ld V1, 10;
\* add V0, V1; ld b, V0 at 0x200, after exactly 3 instruction cycles
\* V0 = 15 and memory[I..I+3] = [0, 1, 5].
C19_ThreeCycles == [][Cycle(3) => SumStoredAsBcd]_vars

\* C19, amended: with the same program, after exactly 4 instruction cycles
\* V0 = 15 and memory[I..I+3] = [0, 1, 5], with I = 0x050 as reset left it
\* and PC = 0x208; after exactly 3 cycles V0 = 15 already, and the bytes at
\* I are still those of the font.
C19_FourCycles ==
    [][/\ Cycle(4) =>
            /\ fault' = NoFault
            /\ SumStoredAsBcd
            /\ I' = FONT_BASE
            /\ PC' = PROGRAM_START + 8
       /\ Cycle(3) =>
            /\ registers'[0] = 15
            /\ memory' = memory
            /\ \A k \in 0 .. 2 : memory'[I' + k] = SPRITES[1][k + 1]]_vars

\* the fourth cycle of the Scenario program has just ended
C19_Witness ==
    /\ loc = "update_timers"
    /\ program = Bytes(Scenario)
    /\ PC = PROGRAM_START + 8
    /\ registers[0] = 15
    /\ I = FONT_BASE
    /\ memory[FONT_BASE + 2] = 5

\* C20: a file of length L <= 3584 is copied to memory[0x200..0x200+L)
\* with every other byte of memory and all other machine state unchanged; a
\* file of length L > 3584 makes the load fail with memory left unchanged.
C20_ProgramLoad ==
    [][loc = "load_program" =>
          IF Len(program) <= MEMORY_SIZE - PROGRAM_START
          THEN /\ fault' = NoFault
               /\ loc' = "read_input"
               /\ \A a \in Addr :
                     memory'[a] =
                        (IF a >= PROGRAM_START
                            /\ a < PROGRAM_START + Len(program)
                         THEN program[a - PROGRAM_START + 1] ELSE memory[a])
               /\ UNCHANGED <<registers, stack, I, PC, SP, delay_reg,
                              sound_reg, draw_flag, frame_buffer,
                              keyboard_keys>>
          ELSE /\ fault' # NoFault
               /\ memory' = memory]_vars

\* C21: in an iteration of the driving loop the steps come in the order
\* input update, executor cycle, timer tick, render; the render runs
\* exactly when the redraw signal is set after the cycle, and resets it, so
\* the signal is false at the start of every iteration.
C21_LoopOrdering ==
    [][/\ loc = "load_program" => loc' \in {"read_input", "panicked"}
       /\ loc = "read_input" =>
             /\ loc' \in {"read_input", "exec_opcode", "exit"}
             /\ draw_flag' = draw_flag /\ canvas' = canvas
       /\ loc = "exec_opcode" =>
             /\ loc' \in {"update_timers", "panicked", "hung"}
             /\ canvas' = canvas
       /\ loc = "update_timers" =>
             /\ loc' = "draw_graphics"
             /\ draw_flag' = draw_flag /\ canvas' = canvas
       /\ loc = "draw_graphics" =>
             /\ loc' \in {"read_input", "exit"}
             /\ canvas' = (IF draw_flag THEN frame_buffer ELSE canvas)
             /\ ~draw_flag'
       /\ loc' = "read_input" => ~draw_flag']_vars

\* the glyph drawn at (0, 0) has been rendered, once the jump set the
\* signal, and the next iteration starts with the signal reset
C21_Witness ==
    /\ loc = "read_input"
    /\ ~draw_flag
    /\ canvas = frame_buffer
    /\ canvas[0][0] = 1
    /\ IsJp(Opcode)

\* the value of Vx for the instruction about to run
Vx == registers[get_byte_0x0F00(Opcode)]

\* C22: skip-key-down X with input[Vx] set skips and clears exactly that
\* flag, so that repeated with no input event in between it does not skip;
\* skip-key-down with the flag clear, skip-key-up, wait-key and every other
\* instruction leave all 16 input flags unchanged.
C22_PressedEdge ==
    [][loc = "exec_opcode" =>
          IF Fetchable /\ IsSkp(Opcode) /\ Vx < KEY_COUNT
          THEN IF keyboard_keys[Vx]
               THEN /\ PC' = PC + 4
                    /\ keyboard_keys' = [keyboard_keys EXCEPT ![Vx] = FALSE]
               ELSE /\ PC' = PC + 2
                    /\ keyboard_keys' = keyboard_keys
          ELSE keyboard_keys' = keyboard_keys]_vars

\* key 4 went down once; skp V0 at 0x202 skipped to the skp V0 at 0x206,
\* which did not skip
C22_Witness ==
    /\ loc = "update_timers"
    /\ program = Bytes(<< \h6004, \hE09E, \h1202, \hE09E, \h1202 >>)
    /\ PC = PROGRAM_START + 8
    /\ events = 1
    /\ KeysDown = {}

\* C23: overflow of the stack is signalled only by a call attempted with
\* SP = 16: every call with SP < 16, the 16th from SP = 0 included,
\* completes without signalling overflow, stores the call site at
\* stack[SP(before)] and raises SP by 1.
C23_OverflowOnlyAtCapacity ==
    [][(ExecStep /\ IsCall(Opcode) /\ SP < STACK_SIZE) =>
          /\ fault' = NoFault
          /\ "stack overflow" \notin stderr'
          /\ stack'[SP] = PC
          /\ SP' = SP + 1]_vars

\* the driving loop is running and PC points at a family-0 word that is
\* neither 00E0 nor 00EE
Stalled ==
    /\ loc \in {"read_input", "exec_opcode", "update_timers", "draw_graphics"}
    /\ Fetchable
    /\ Family(Opcode) = 0
    /\ get_bytes_0x00FF(Opcode) \notin {\hE0, \hEE}

\* C24: an executor cycle on an unrecognized family-0 word leaves the whole
\* machine state unchanged, PC included; once PC points at such a word
\* every later cycle runs it again, and PC, the registers, I, SP, the
\* stack, memory and the display never change again.
C24_UnknownFamily0Stalls ==
    [][Stalled =>
          /\ memory' = memory /\ registers' = registers /\ stack' = stack
          /\ I' = I /\ PC' = PC /\ SP' = SP
          /\ frame_buffer' = frame_buffer
          /\ fault' = NoFault
          /\ loc' = "exit" \/ Stalled'
          /\ loc = "exec_opcode" =>
                /\ loc' = "update_timers"
                /\ UNCHANGED <<delay_reg, sound_reg, draw_flag,
                               keyboard_keys>>]_vars

\* the jump to 0xFFE has landed on a zero word, and at least two cycles
\* have run on it
C24_Witness ==
    /\ loc = "update_timers"
    /\ PC = MEMORY_SIZE - 2
    /\ Opcode = 0
    /\ "non existing 0x0xxx opcode" \in stderr
    /\ timer_hist.delay.since >= 3

\* C25: skip-key-down X and skip-key-up X complete for every value of Vx
\* in 0..255, advancing PC by 2 or by 4, and touch no flag outside the 16
\* input flags: Vx >= 16 gives no out-of-range access.
C25_KeyIndexInRange ==
    [][(ExecStep /\ (IsSkp(Opcode) \/ IsSknp(Opcode))) =>
          /\ fault' = NoFault
          /\ loc' = "update_timers"
          /\ PC' \in {PC + 2, PC + 4}
          /\ DOMAIN keyboard_keys' = 0 .. (KEY_COUNT - 1)
          /\ \A k \in 0 .. (KEY_COUNT - 1) :
                keyboard_keys'[k] # keyboard_keys[k] => k = Vx]_vars

====
